---- MODULE Spec2Model ----
(***************************************************************************)
(* A model of src/lib.rs: the A* driver AStar::run over a PathGenerator.    *)
(* One run of AStar::run is the state machine; one action is one iteration  *)
(* of its loop (lines 50-76).  The generator is an input of the run: it is  *)
(* either a finite table drawn from bounded sets (any small directed graph  *)
(* with step costs and heuristic values) or the Map of the test module.     *)
(***************************************************************************)
EXTENDS Integers, Sequences, FiniteSets, TLC

VARIABLES gen, start, target, que, closed_nodes, top, generated, result, pc

vars == <<gen, start, target, que, closed_nodes, top, generated, result, pc>>

(* ---------------- bounds of the model ---------------- *)
MaxRow == 1
MaxCol == 1
MaxEdges == 3
MaxCost == 1
MaxHeur == 1
MaxStartCoord == 1
MaxTargetCoord == 3
MaxClosed == 80

(* ---------------- Option<T>: <<>> is None, <<v>> is Some(v) ---------------- *)
None == <<>>

Some(v) == <<v>>

is_some(o) == Len(o) > 0

unwrap(o) == o[1]

OptionOf(S) == {None} \cup {Some(v) : v \in S}

(* ---------------- positions of the table generators ---------------- *)
Positions == (0..MaxRow) \X (0..MaxCol)

PosLess(p, q) == p[1] < q[1] \/ (p[1] = q[1] /\ p[2] < q[2])

RECURSIVE SetToSeq(_)
SetToSeq(S) ==
    IF S = {} THEN <<>>
    ELSE LET m == CHOOSE x \in S : \A y \in S : y = x \/ PosLess(x, y)
         IN <<m>> \o SetToSeq(S \ {m})

RECURSIVE Reverse(_)
Reverse(s) == IF s = <<>> THEN <<>> ELSE Append(Reverse(Tail(s)), Head(s))

(* positions reachable from s along the edge set E *)
RECURSIVE ReachFrom(_, _)
ReachFrom(R, E) ==
    LET N == R \cup {e[2] : e \in {f \in E : f[1] \in R}}
    IN IF N = R THEN R ELSE ReachFrom(N, E)

(* edge sets of at most k edges, every edge leaving a position reachable    *)
(* from s: edges out of positions the search never visits are never queried *)
RECURSIVE EdgeSets(_, _)
EdgeSets(s, k) ==
    IF k = 0 THEN {{}}
    ELSE LET prev == EdgeSets(s, k - 1)
         IN prev \cup UNION {{E \cup {<<a, b>>} : a \in ReachFrom({s}, E), b \in Positions}
                             : E \in prev}

(* ---------------- the test module's Map (lines 193-258) ---------------- *)
calc_usize_diff(x, y) == IF x > y THEN x - y ELSE y - x

path_is_possible(blocks, possible_path) ==
    IF possible_path \in blocks THEN None ELSE Some(possible_path)

RECURSIVE FilterPossible(_, _)
FilterPossible(blocks, cands) ==
    IF cands = <<>> THEN <<>>
    ELSE LET r == path_is_possible(blocks, Head(cands))
         IN (IF is_some(r) THEN <<unwrap(r)>> ELSE <<>>)
            \o FilterPossible(blocks, Tail(cands))

MapGeneratePaths(blocks, p) ==
    LET back == IF p[1] # 0 /\ p[2] # 0
                THEN << <<p[1] - 1, p[2] - 1>>, <<p[1], p[2] - 1>>, <<p[1] - 1, p[2]>> >>
                ELSE <<>>
        fwd == << <<p[1] + 1, p[2] + 1>>, <<p[1], p[2] + 1>>, <<p[1] + 1, p[2]>> >>
    IN FilterPossible(blocks, back) \o FilterPossible(blocks, fwd)

MapCalculateCost(a, b) == 1

(* x ^ 2 in Rust is bitwise exclusive or with 2 *)
Xor2(x) == IF (x \div 2) % 2 = 1 THEN x - 2 ELSE x + 2

(* f64::sqrt(n as f64) as usize: the integer part of the square root *)
ISqrt(n) == CHOOSE k \in 0..n : k * k <= n /\ (k + 1) * (k + 1) > n

MapHeuristic(p, t) ==
    IF ~is_some(t[1]) /\ ~is_some(t[2]) THEN 0
    ELSE IF ~is_some(t[1]) THEN calc_usize_diff(unwrap(t[2]), p[2])
    ELSE IF ~is_some(t[2]) THEN calc_usize_diff(unwrap(t[1]), p[1])
    ELSE ISqrt(Xor2(calc_usize_diff(unwrap(t[1]), p[1]))
               + Xor2(calc_usize_diff(unwrap(t[2]), p[2])))

(* ---------------- trait PathGenerator (lines 4-16) ---------------- *)
generate_paths(p) ==
    IF gen.kind = "map" THEN MapGeneratePaths(gen.blocks, p)
    ELSE IF p \in DOMAIN gen.paths THEN gen.paths[p] ELSE <<>>

calculate_cost(a, b) ==
    IF gen.kind = "map" THEN MapCalculateCost(a, b)
    ELSE IF <<a, b>> \in DOMAIN gen.cost THEN gen.cost[<<a, b>>] ELSE 0

calculate_heuristic_cost(p, t) ==
    IF gen.kind = "map" THEN MapHeuristic(p, t)
    ELSE IF p \in DOMAIN gen.heur THEN gen.heur[p] ELSE 0

(* ---------------- Node (lines 131-160) ---------------- *)
NodeNew(position, heuristic_cost) ==
    [position |-> position, comes_from |-> None, cost |-> 0,
     heuristic_cost |-> heuristic_cost]

NodeCmpLess(a, b) == a.heuristic_cost < b.heuristic_cost

NodeCmpEqual(a, b) == a.heuristic_cost = b.heuristic_cost

NodesAt(s, k) == SelectSeq(s, LAMBDA n : n.heuristic_cost = k)

MaxKey(s) == CHOOSE k \in {s[i].heuristic_cost : i \in DOMAIN s} :
                 \A i \in DOMAIN s : s[i].heuristic_cost <= k

(* Vec::sort is a stable sort by Ord, and Ord compares heuristic_cost only: *)
(* the nodes in ascending heuristic_cost, those that compare equal in the   *)
(* order they had                                                           *)
RECURSIVE SortFrom(_, _, _)
SortFrom(s, k, hi) == IF k > hi THEN <<>> ELSE NodesAt(s, k) \o SortFrom(s, k + 1, hi)

(* faulty variant: an unstable sort, nodes that compare equal come out reversed *)
SortQue_ties_reversed(s) ==
    IF s = <<>> THEN <<>> ELSE SortFrom(Reverse(s), 0, MaxKey(s))

(* faulty variant: the sort is descending *)
SortQue_descending(s) ==
    IF s = <<>> THEN <<>> ELSE Reverse(SortFrom(Reverse(s), 0, MaxKey(s)))

SortQue(s) == IF s = <<>> THEN <<>> ELSE SortFrom(s, 0, MaxKey(s))

(* ---------------- AStar (lines 23-129) ---------------- *)
(* faulty variant: one matching axis is enough *)
target_is_reached_either(node) ==
    \/ ~is_some(target[1]) /\ ~is_some(target[2])
    \/ is_some(target[1]) /\ unwrap(target[1]) = node.position[1]
    \/ is_some(target[2]) /\ unwrap(target[2]) = node.position[2]

(* faulty variant: the column constraint is compared with the row coordinate *)
target_is_reached_row_twice(node) ==
    IF is_some(target[1]) /\ unwrap(target[1]) # node.position[1] THEN FALSE
    ELSE IF is_some(target[2]) /\ unwrap(target[2]) # node.position[1] THEN FALSE
    ELSE TRUE

target_is_reached(node) ==
    IF is_some(target[1]) /\ unwrap(target[1]) # node.position[1] THEN FALSE
    ELSE IF is_some(target[2]) /\ unwrap(target[2]) # node.position[2] THEN FALSE
    ELSE TRUE

(* faulty variant: the target predicate is evaluated on the new position *)
create_new_node_checks_new(old_node, new_position, cost, heuristic_cost) ==
    IF target_is_reached([position |-> new_position]) THEN [finished |-> TRUE]
    ELSE LET new_cost == cost + old_node.cost
         IN [finished |-> FALSE,
             node |-> [position |-> new_position, comes_from |-> Some(old_node),
                       cost |-> new_cost, heuristic_cost |-> heuristic_cost + new_cost]]

(* faulty variant: the total leaves out the cost accumulated so far *)
create_new_node_step_total(old_node, new_position, cost, heuristic_cost) ==
    IF target_is_reached(old_node) THEN [finished |-> TRUE]
    ELSE LET new_cost == cost + old_node.cost
         IN [finished |-> FALSE,
             node |-> [position |-> new_position, comes_from |-> Some(old_node),
                       cost |-> new_cost, heuristic_cost |-> heuristic_cost + cost]]

(* NextNodeResult: [finished |-> TRUE] or [finished |-> FALSE, node |-> n]. *)
(* The usize sums stay far below 2^64 for the costs drawn here.             *)
create_new_node(old_node, new_position, cost, heuristic_cost) ==
    IF target_is_reached(old_node) THEN [finished |-> TRUE]
    ELSE LET new_cost == cost + old_node.cost
         IN [finished |-> FALSE,
             node |-> [position |-> new_position, comes_from |-> Some(old_node),
                       cost |-> new_cost, heuristic_cost |-> heuristic_cost + new_cost]]

(* faulty variant: the walk stops before the node without predecessor *)
RECURSIVE reconstruct_path_no_start(_)
reconstruct_path_no_start(opt) ==
    IF is_some(opt.comes_from)
    THEN <<opt.position>> \o reconstruct_path_no_start(unwrap(opt.comes_from))
    ELSE <<>>

RECURSIVE reconstruct_path(_)
reconstruct_path(opt) ==
    IF is_some(opt.comes_from)
    THEN <<opt.position>> \o reconstruct_path(unwrap(opt.comes_from))
    ELSE <<opt.position>>

(* faulty variant: the closed set is never consulted *)
pull_from_closed_never(closed, position) == None

pull_from_closed_by_position(closed, position) ==
    LET hits == {i \in 1..Len(closed) : closed[i].position = position}
    IN IF hits = {} THEN None
       ELSE Some(closed[CHOOSE i \in hits : \A j \in hits : i <= j])

(* the for loop of lines 58-73 over the neighbours still to visit: the que  *)
(* it leaves and whether it returned through NextNodeResult::Finished       *)
RECURSIVE ForPossiblePaths(_, _, _, _)
ForPossiblePaths(t, paths, q, closed) ==
    IF paths = <<>> THEN [finished |-> FALSE, que |-> q]
    ELSE LET possible_path == Head(paths)
         IN IF is_some(pull_from_closed_by_position(closed, possible_path))
            THEN ForPossiblePaths(t, Tail(paths), q, closed)
            ELSE LET r == create_new_node(t, possible_path,
                                          calculate_cost(t.position, possible_path),
                                          calculate_heuristic_cost(possible_path, target))
                 IN IF r.finished THEN [finished |-> TRUE, que |-> q]
                    ELSE ForPossiblePaths(t, Tail(paths), Append(q, r.node), closed)

(* lines 54-74 for the que q and the closed set: the node popped at line 55 *)
(* and the outcome of the for loop over its neighbours                      *)
LoopBody(q, closed) ==
    LET sorted == SortQue(q)
        popped == Head(sorted)
        r == ForPossiblePaths(popped, generate_paths(popped.position), Tail(sorted), closed)
    IN [top |-> popped, finished |-> r.finished, que |-> r.que]

(* ---------------- the run ---------------- *)
TargetSpecs == OptionOf(0..MaxRow) \X OptionOf(0..MaxCol)

(* a table generator over the edge set E: neighbour lists in ascending or   *)
(* descending position order, a cost per edge, a heuristic per position     *)
TableGen(E, c, h, rev) ==
    [kind |-> "table",
     paths |-> [p \in Positions |->
                  LET l == SetToSeq({e[2] : e \in {f \in E : f[1] = p}})
                  IN IF rev THEN Reverse(l) ELSE l],
     cost |-> c,
     heur |-> h]

(* lines 44-49: the que holds the start node *)
RunInit ==
    /\ que = <<NodeNew(start, calculate_heuristic_cost(start, target))>>
    /\ closed_nodes = <<>>
    /\ top = None
    /\ generated = <<>>
    /\ result = None
    /\ pc = "loop"

(* Table generators are closed under permuting the row values and the      *)
(* column values, which maps any start to <<0, 0>>; the Map runs vary the   *)
(* start.                                                                   *)
TableInit ==
    /\ start = <<0, 0>>
    /\ target \in TargetSpecs
    /\ \E E \in EdgeSets(start, MaxEdges) :
         \E c \in [E -> 0..MaxCost], h \in [ReachFrom({start}, E) -> 0..MaxHeur],
            rev \in BOOLEAN :
              gen = TableGen(E, c, h, rev)
    /\ RunInit

(* the test's fixture (lines 260-263), over a few starts and targets *)
MapBlocks == {<<2, 2>>}

MapInit ==
    /\ gen = [kind |-> "map", blocks |-> MapBlocks]
    /\ start \in (0..MaxStartCoord) \X (0..MaxStartCoord)
    /\ target \in OptionOf(0..MaxTargetCoord) \X OptionOf(0..MaxTargetCoord)
    /\ RunInit

Init == TableInit \/ MapInit

(* lines 51-53 *)
ReturnNone ==
    /\ pc = "loop"
    /\ que = <<>>
    /\ result' = None
    /\ pc' = "done"
    /\ UNCHANGED <<gen, start, target, que, closed_nodes, top, generated>>

(* faulty variant: the popped node is not pushed to closed_nodes *)
Expand_without_close ==
    /\ pc = "loop"
    /\ que # <<>>
    /\ Len(closed_nodes) < MaxClosed
    /\ \E body \in {LoopBody(que, closed_nodes)} :
          /\ ~body.finished
          /\ top' = Some(body.top)
          /\ generated' = Append(generated, body.top.position)
          /\ que' = body.que
    /\ UNCHANGED <<gen, start, target, closed_nodes, result, pc>>

(* lines 54-75, the iteration reaches line 75 *)
Expand ==
    /\ pc = "loop"
    /\ que # <<>>
    /\ Len(closed_nodes) < MaxClosed
    /\ \E body \in {LoopBody(que, closed_nodes)} :
          /\ ~body.finished
          /\ top' = Some(body.top)
          /\ generated' = Append(generated, body.top.position)
          /\ que' = body.que
          /\ closed_nodes' = Append(closed_nodes, body.top)
    /\ UNCHANGED <<gen, start, target, result, pc>>

(* lines 54-70, the iteration returns at line 70 *)
Finish ==
    /\ pc = "loop"
    /\ que # <<>>
    /\ \E body \in {LoopBody(que, closed_nodes)} :
          /\ body.finished
          /\ top' = Some(body.top)
          /\ generated' = Append(generated, body.top.position)
          /\ que' = body.que
          /\ result' = Some(reconstruct_path(body.top))
          /\ pc' = "done"
    /\ UNCHANGED <<gen, start, target, closed_nodes>>

Next == ReturnNone \/ Expand \/ Finish

Spec == Init /\ [][Next]_vars

(* Runs for the termination properties: the table generators with one cost *)
(* for every edge and a zero heuristic.  The loop has no suspension point:  *)
(* an iteration that can run does run.                                      *)
FairInit ==
    /\ start = <<0, 0>>
    /\ target \in TargetSpecs
    /\ \E E \in EdgeSets(start, MaxEdges) :
         \E k \in 0..MaxCost, rev \in BOOLEAN :
            gen = TableGen(E, [e \in E |-> k], [p \in ReachFrom({start}, E) |-> 0], rev)
    /\ RunInit

FairSpec == FairInit /\ [][Next]_vars /\ WF_vars(Next)

(* Runs for termination under any step costs and heuristic values: the     *)
(* table generators with a cost per edge and a heuristic per position,      *)
(* neighbour lists in ascending order.                                      *)
TermInit ==
    /\ start = <<0, 0>>
    /\ target \in TargetSpecs
    /\ \E E \in EdgeSets(start, MaxEdges) :
         \E c \in [E -> 0..MaxCost], h \in [ReachFrom({start}, E) -> 0..MaxHeur] :
            gen = TableGen(E, c, h, FALSE)
    /\ RunInit

TermSpec == TermInit /\ [][Next]_vars /\ WF_vars(Next)

(* ======================= properties ======================= *)
Range(f) == {f[i] : i \in DOMAIN f}

(* the target predicate on a position, axis by axis *)
Matches(p) ==
    /\ (is_some(target[1]) => p[1] = unwrap(target[1]))
    /\ (is_some(target[2]) => p[2] = unwrap(target[2]))

IsTable == gen.kind = "table"

GenEdges == {e \in Positions \X Positions : e[2] \in Range(generate_paths(e[1]))}

Reachable == ReachFrom({start}, GenEdges)

(* larger than the cost of any cycle-free path of a table generator *)
Inf == (MaxCost + 1) * Cardinality(Positions) + 1

Min(S) == CHOOSE x \in S : \A y \in S : x <= y

(* cheapest cost from each position to a position matching the target, by   *)
(* k rounds of relaxation; Inf where none can be reached                    *)
RECURSIVE Remaining(_)
Remaining(k) ==
    IF k = 0 THEN [p \in Positions |-> IF Matches(p) THEN 0 ELSE Inf]
    ELSE LET d == Remaining(k - 1)
         IN [p \in Positions |->
               Min({d[p]} \cup {calculate_cost(p, q) + d[q] :
                                  q \in Range(generate_paths(p)) \cap Positions})]

RemainingCost == Remaining(Cardinality(Positions))

MinTargetCost == RemainingCost[start]

Admissible ==
    \A p \in Reachable :
        RemainingCost[p] < Inf => calculate_heuristic_cost(p, target) <= RemainingCost[p]

(* a returned sequence runs from its head back to start *)
RECURSIVE PathCost(_)
PathCost(path) ==
    IF Len(path) <= 1 THEN 0
    ELSE calculate_cost(path[2], path[1]) + PathCost(Tail(path))

Returned == pc = "done" /\ is_some(result)

ReturnedPath == unwrap(result)

(* the number of predecessor links from a node back to the start node *)
RECURSIVE Depth(_)
Depth(n) == IF is_some(n.comes_from) THEN 1 + Depth(unwrap(n.comes_from)) ELSE 0

NoRepeat(s) == \A i, j \in 1..Len(s) : s[i] = s[j] => i = j

ClosedPositions == [i \in 1..Len(closed_nodes) |-> closed_nodes[i].position]

(* the generator keeps section 4.2: no position is its own neighbour *)
NoSelfLoop == \A p \in Positions : p \notin Range(generate_paths(p))

(* C1: with an admissible heuristic (and a generator that lists no position *)
(* as its own neighbour), a returned path costs the minimum over all paths  *)
(* from start to a position matching the target.                            *)
C1_Optimality ==
    (IsTable /\ Returned /\ NoSelfLoop /\ Admissible) =>
        PathCost(ReturnedPath) = MinTargetCost

(* C2: run returns None exactly when no position matching the target is     *)
(* reachable from start (stated for generators that list no position as    *)
(* its own neighbour and a start that does not itself match).               *)
C2_Completeness ==
    (IsTable /\ pc = "done" /\ NoSelfLoop /\ ~Matches(start)) =>
        (result = None <=> ~\E p \in Reachable : Matches(p))

NoTargetReachable == IsTable /\ ~\E p \in Reachable : Matches(p)

(* C3: when no reachable position matches the target, the run terminates,   *)
(* returning None with the que empty.                                       *)
C3_NoPath ==
    NoTargetReachable => <>(pc = "done" /\ result = None /\ que = <<>>)

C3_Witness ==
    NoTargetReachable /\ pc = "done" /\ result = None /\ Len(closed_nodes) >= 3

(* C4: a returned sequence ends with start, each element is a neighbour of  *)
(* the element after it, and its length is the head's link count plus one.  *)
C4_Reconstruction ==
    Returned =>
        /\ Len(ReturnedPath) >= 1
        /\ ReturnedPath[Len(ReturnedPath)] = start
        /\ \A i \in 1..(Len(ReturnedPath) - 1) :
               ReturnedPath[i] \in Range(generate_paths(ReturnedPath[i + 1]))
        /\ Len(ReturnedPath) = Depth(unwrap(top)) + 1

C4_Witness == Returned /\ Len(ReturnedPath) >= 3 /\ ReturnedPath[1] # start

(* C5: the head of a returned sequence equals the target on every present   *)
(* axis; with target (Some(3), None) its row is 3.                          *)
C5_HeadMatches ==
    Returned =>
        /\ Matches(ReturnedPath[1])
        /\ (target = <<Some(3), None>> => ReturnedPath[1][1] = 3)

C5_Witness ==
    /\ Returned
    /\ target = <<Some(3), None>>
    /\ ReturnedPath[1][1] = 3
    /\ ReturnedPath[1][2] # start[2]

(* C6: generate_paths is called at most once per position and the closed    *)
(* set never holds two entries with the same position.                      *)
C6_ClosedExclusive ==
    (IsTable /\ NoSelfLoop) => NoRepeat(generated) /\ NoRepeat(ClosedPositions)

TestScenario ==
    /\ gen = [kind |-> "map", blocks |-> {<<2, 2>>}]
    /\ start = <<0, 0>>
    /\ target = <<Some(3), Some(3)>>

(* C7: the test's run returns [(3,3), (2,3), (1,2), (1,1), (0,0)], of cost  *)
(* 4, without the blocked cell.                                             *)
C7_TestScenario ==
    (TestScenario /\ pc = "done") =>
        /\ result = Some(<< <<3, 3>>, <<2, 3>>, <<1, 2>>, <<1, 1>>, <<0, 0>> >>)
        /\ PathCost(ReturnedPath) = 4
        /\ <<2, 2>> \notin Range(ReturnedPath)

C7_Witness == TestScenario /\ pc = "done"

EmptyStart == generate_paths(start) = <<>> /\ ~Matches(start)

(* C8: when start has no neighbours and does not match the target, the run  *)
(* pops and closes start, then returns None from the empty que.             *)
C8_EmptyNeighbours ==
    EmptyStart =>
        /\ Len(closed_nodes) <= 1
        /\ (closed_nodes # <<>> =>
              que = <<>> /\ ClosedPositions = <<start>> /\ generated = <<start>>)
        /\ (pc = "done" => result = None /\ closed_nodes # <<>>)

C8_Witness == EmptyStart /\ pc = "done" /\ result = None

OpenNeighbours(p, closed) ==
    {q \in Range(generate_paths(p)) : \A i \in 1..Len(closed) : closed[i].position # q}

(* the position k links up the predecessor chain of node n *)
RECURSIVE Ancestor(_, _)
Ancestor(n, k) == IF k = 0 THEN n ELSE Ancestor(unwrap(n.comes_from), k - 1)

Count(s, n) == Cardinality({i \in DOMAIN s : s[i] = n})

(* a step of the loop that pops a node (Expand or Finish) *)
Pops == pc = "loop" /\ que # <<>> /\ generated' # generated

PoppedNode == unwrap(top')

(* the nodes of the next que that were in the que, and those pushed by the step *)
KeptLen == Len(que) - 1

KeptPart == SubSeq(que', 1, KeptLen)

PushedPart == SubSeq(que', KeptLen + 1, Len(que'))

(* C11: the node removed from the que has a heuristic_cost not above that   *)
(* of any node of the que, and exactly that one node is removed.            *)
C11_BestFirst ==
    [][Pops =>
         /\ Count(que, PoppedNode) >= 1
         /\ \A i \in DOMAIN que : ~NodeCmpLess(que[i], PoppedNode)
         /\ Len(que') >= KeptLen
         /\ \A i \in DOMAIN que :
                Count(KeptPart, que[i])
                  = Count(que, que[i]) - (IF que[i] = PoppedNode THEN 1 ELSE 0)
         /\ \A i \in DOMAIN PushedPart :
                PushedPart[i].comes_from = Some(PoppedNode)]_vars

C11_Witness ==
    /\ is_some(top)
    /\ \E i, j \in DOMAIN que :
          /\ NodeCmpLess(unwrap(top), que[i])
          /\ NodeCmpEqual(unwrap(top), que[j])
          /\ que[i].comes_from # top
          /\ que[j].comes_from # top

HeldNodes == Range(que) \cup Range(closed_nodes)

(* a node together with the nodes of its predecessor chain *)
RECURSIVE Chain(_)
Chain(n) == IF is_some(n.comes_from) THEN {n} \cup Chain(unwrap(n.comes_from)) ELSE {n}

CostAccounted(n) ==
    /\ n.heuristic_cost = n.cost + calculate_heuristic_cost(n.position, target)
    /\ IF is_some(n.comes_from)
       THEN n.cost = unwrap(n.comes_from).cost
                       + calculate_cost(unwrap(n.comes_from).position, n.position)
       ELSE n.cost = 0 /\ n.position = start

(* C12: every node of the que or the closed set has heuristic_cost = cost + *)
(* heuristic of its position; the start node has cost 0 and any other node  *)
(* its predecessor's cost plus the step cost; a held node stays as it is.   *)
C12_CostAccounting ==
    /\ [](\A n \in HeldNodes : CostAccounted(n))
    /\ [][/\ \A i \in DOMAIN closed_nodes : closed_nodes'[i] = closed_nodes[i]
          /\ \A i \in DOMAIN que :
                que[i] \in Range(que') \/ (Pops /\ que[i] = PoppedNode)
          /\ Pops /\ pc' = "loop" => closed_nodes'[Len(closed_nodes')] = PoppedNode]_vars

C12_Witness ==
    \E n \in Range(closed_nodes) :
        /\ Depth(n) >= 2
        /\ n.cost > unwrap(n.comes_from).cost
        /\ unwrap(n.comes_from).cost > 0
        /\ n.heuristic_cost > n.cost

StartNode == NodeNew(start, calculate_heuristic_cost(start, target))

(* the node without predecessor at the end of n's predecessor chain *)
RECURSIVE Root(_)
Root(n) == IF is_some(n.comes_from) THEN Root(unwrap(n.comes_from)) ELSE n

(* C13: the predecessor of every que node and of every closed node is held  *)
(* in the closed set, and every predecessor chain ends at the start node,   *)
(* the only node without predecessor.                                       *)
C13_PredecessorTree ==
    /\ \A n \in HeldNodes :
          /\ is_some(n.comes_from) => unwrap(n.comes_from) \in Range(closed_nodes)
          /\ ~is_some(n.comes_from) => n = StartNode
          /\ Root(n) = StartNode
    /\ \A i \in DOMAIN closed_nodes :
          is_some(closed_nodes[i].comes_from) =>
              \E j \in 1..(i - 1) : closed_nodes[j] = unwrap(closed_nodes[i].comes_from)

C13_Witness ==
    /\ pc = "loop"
    /\ \E i, j \in DOMAIN que :
          /\ is_some(que[i].comes_from)
          /\ is_some(que[j].comes_from)
          /\ que[i].comes_from # que[j].comes_from
          /\ Depth(que[i]) >= 2

(* the neighbours of p without an entry in closed, in generate_paths order *)
OpenSeq(p, closed) ==
    SelectSeq(generate_paths(p), LAMBDA q : \A i \in 1..Len(closed) : closed[i].position # q)

PushedPositions == [i \in DOMAIN PushedPart |-> PushedPart[i].position]

(* C14: an entry of the closed set is never removed or changed, and an      *)
(* iteration pushes nodes for exactly the neighbours of the popped node     *)
(* whose position has no closed entry: a closed neighbour adds nothing to   *)
(* the que, and a run returns a path only from a popped node that has a     *)
(* neighbour which is not closed.                                           *)
C14_ClosedPermanent ==
    [][/\ Len(closed_nodes') >= Len(closed_nodes)
       /\ \A i \in DOMAIN closed_nodes : closed_nodes'[i] = closed_nodes[i]
       /\ Pops =>
            /\ \A i \in DOMAIN PushedPositions :
                  \A j \in DOMAIN closed_nodes : closed_nodes[j].position # PushedPositions[i]
            /\ pc' = "loop" =>
                  PushedPositions = OpenSeq(PoppedNode.position, closed_nodes)
            /\ pc' = "done" =>
                  /\ PushedPositions = <<>>
                  /\ OpenNeighbours(PoppedNode.position, closed_nodes) # {}]_vars

(* an iteration has skipped a closed neighbour that the popped node reaches *)
(* at a smaller cost than the closed entry records                          *)
C14_Witness ==
    /\ pc = "loop"
    /\ is_some(top)
    /\ closed_nodes # <<>>
    /\ closed_nodes[Len(closed_nodes)] = unwrap(top)
    /\ \E i \in 1..(Len(closed_nodes) - 1) :
          /\ closed_nodes[i].position \in Range(generate_paths(unwrap(top).position))
          /\ unwrap(top).cost + calculate_cost(unwrap(top).position, closed_nodes[i].position)
                < closed_nodes[i].cost
          /\ \A j \in DOMAIN que : que[j].position # closed_nodes[i].position

(* the iteration that closed node n *)
ClosedAt(n) == CHOOSE i \in DOMAIN closed_nodes : closed_nodes[i] = n

(* node n was created for a position that had no closed entry by then *)
CreatedOpen(n) ==
    is_some(n.comes_from) =>
        \A j \in 1..(ClosedAt(unwrap(n.comes_from)) - 1) :
            closed_nodes[j].position # n.position

(* C15: on a generator with finitely many positions reachable from start    *)
(* the run ends, with Some or None, whatever the step costs and heuristic   *)
(* values; no node is ever created for a position that was closed before.   *)
C15_Termination ==
    /\ <>(pc = "done")
    /\ [](\A n \in HeldNodes : CreatedOpen(n))

(* a finished run over a graph with a cycle through start, in which one     *)
(* position was expanded twice from coexisting que entries                  *)
C15_Witness ==
    /\ pc = "done"
    /\ IsTable
    /\ \E p \in Range(generated) : start \in Range(generate_paths(p))
    /\ \E i, j \in DOMAIN generated : i < j /\ generated[i] = generated[j]
    /\ \E e \in DOMAIN gen.cost : gen.cost[e] = 0
    /\ \E e \in DOMAIN gen.cost : gen.cost[e] > 0
    /\ \E q \in DOMAIN gen.heur : gen.heur[q] > 0

(* no position of the table, and no position expanded so far, lists itself *)
SelfLoopFree ==
    \A p \in Positions \cup Range(generated) : p \notin Range(generate_paths(p))

(* C16: when no position is its own neighbour, no position occurs twice in  *)
(* a returned path, and no held node has the position of one of its         *)
(* ancestors in the predecessor chain.                                      *)
C16_SimplePaths ==
    SelfLoopFree =>
        /\ (Returned => NoRepeat(ReturnedPath))
        /\ \A n \in HeldNodes :
              \A k \in 1..Depth(n) : Ancestor(n, k).position # n.position

(* a returned path of three or more positions along which the generator     *)
(* offers a step back to an earlier position                                *)
C16_Witness ==
    /\ Returned
    /\ SelfLoopFree
    /\ Len(ReturnedPath) >= 3
    /\ \E i, j \in DOMAIN ReturnedPath :
          /\ i # j
          /\ ReturnedPath[j] \in Range(generate_paths(ReturnedPath[i]))
          /\ ReturnedPath[i] \in Range(generate_paths(ReturnedPath[j]))

(* the place of position p in the neighbour list l *)
IndexIn(l, p) == CHOOSE i \in DOMAIN l : l[i] = p /\ \A j \in 1..(i - 1) : l[j] # p

(* when a que node was pushed: the iteration that expanded its predecessor  *)
(* and its place among that node's neighbours; the start node comes first   *)
EnqueueKey(n) ==
    IF is_some(n.comes_from)
    THEN <<ClosedAt(unwrap(n.comes_from)),
           IndexIn(generate_paths(unwrap(n.comes_from).position), n.position)>>
    ELSE <<0, 0>>

EnqueuedBefore(a, b) ==
    \/ EnqueueKey(a)[1] < EnqueueKey(b)[1]
    \/ EnqueueKey(a)[1] = EnqueueKey(b)[1] /\ EnqueueKey(a)[2] < EnqueueKey(b)[2]

(* C17: the node an iteration pops has the smallest total cost of the que   *)
(* and, among the que nodes with that same total cost, it is the one that   *)
(* was pushed earliest.                                                     *)
C17_FifoTies ==
    [][Pops =>
         \A i \in DOMAIN que :
            /\ PoppedNode.heuristic_cost <= que[i].heuristic_cost
            /\ (que[i].heuristic_cost = PoppedNode.heuristic_cost /\ que[i] # PoppedNode)
                  => EnqueuedBefore(PoppedNode, que[i])]_vars

(* after a pop the que still holds a node of the same total cost that was   *)
(* pushed in a later iteration than the popped node                         *)
C17_Witness ==
    /\ is_some(top)
    /\ is_some(unwrap(top).comes_from)
    /\ \E j \in DOMAIN que :
          /\ que[j].heuristic_cost = unwrap(top).heuristic_cost
          /\ is_some(que[j].comes_from)
          /\ que[j].comes_from # top
          /\ que[j].comes_from # unwrap(top).comes_from
          /\ que[j].position # unwrap(top).position

====
